---- MODULE Spec2Model ----
(***************************************************************************)
(* A model of hg-reset.py: the bounded head scan (heads), the branch and   *)
(* tag classifiers (get_branches, get_tags) and the script body that       *)
(* validates the flags, loads the caches, checks the tip precondition and  *)
(* prints the report.                                                      *)
(*                                                                         *)
(* Byte strings are sequences of byte values (0..255); dictionaries whose  *)
(* iteration order is observable are sequences of distinct keys in         *)
(* insertion order; the others are sets or functions.                      *)
(***************************************************************************)
EXTENDS Integers, Sequences, FiniteSets, TLC

VARIABLES
    flags,          \* the options given on the command line (their dest names)
    revision,       \* options.revision
    pc,             \* position of the script / of the heads scan
    exit,           \* how the process ended ("" while it runs)
    files,          \* the four cache files on disk, before load_cache parses them
    heads_cache, marks_cache, state_cache, mapping_cache,
    repo,           \* the opened repository: count, parentrevs, branch, tagslist
    git_refs,       \* what get_git_sha1 answers for each branch
    interned,       \* whether the runtime shares one object for equal byte strings
    args,           \* the arguments of the heads() call being explored
    startrev, stoprevs, r, pidx, reachable, headsd, ret,        \* heads()
    stale, changed, unchanged, good, bad,
    failed_at,      \* the head or tag at which a lookup error was raised
    stdout, stderr

optvars   == <<flags, revision>>
cachevars == <<heads_cache, marks_cache, state_cache, mapping_cache>>
envvars   == <<files, repo, git_refs, interned>>
scanvars  == <<args, startrev, stoprevs, r, pidx, reachable, headsd, ret>>
outvars   == <<stale, changed, unchanged, good, bad, failed_at, stdout, stderr>>
vars      == <<optvars, pc, exit, cachevars, envvars, scanvars, outvars>>

(***************************************************************************)
(* Bounds                                                                  *)
(***************************************************************************)
\* number of changesets of the repositories the head scan is explored on
NumRevs == 3
\* number of changesets of the repositories the classifiers and the run use
RepoRevs == 2

(***************************************************************************)
(* Byte strings, None, and the conversions the script uses                 *)
(***************************************************************************)
None == <<-1>>          \* not a byte string: no byte is negative

\* a Python int held where the script elsewhere holds a byte string
IntObj(n) == <<-2, n>>

IsBytes(v) == v = <<>> \/ v[1] >= 0

B_tip     == <<116, 105, 112>>                  \* b"tip"
B_default == <<100>>                            \* branch names (b"d", b"s")
B_stable  == <<115>>
B_v1      == <<118, 49>>                        \* tag names (b"v1", b"v2")
B_v2      == <<118, 50>>

RECURSIVE DecNat(_)
DecNat(n) == IF n < 10 THEN <<48 + n>> ELSE DecNat(n \div 10) \o <<48 + (n % 10)>>

\* b"%d" % n
FormatD(n) == IF n < 0 THEN <<45>> \o DecNat(0 - n) ELSE DecNat(n)

RECURSIVE ParseNat(_)
ParseNat(s) ==
    IF s = <<>> THEN 0
    ELSE ParseNat(SubSeq(s, 1, Len(s) - 1)) * 10 + (s[Len(s)] - 48)

\* int(b) for a byte string holding a decimal number
int(b) == IF b[1] = 45 THEN 0 - ParseNat(Tail(b)) ELSE ParseNat(b)

\* bytes.decode("utf8"), for one- and two-byte sequences: the code points
RECURSIVE decode(_)
decode(b) ==
    IF b = <<>> THEN <<>>
    ELSE IF b[1] < 128 THEN <<b[1]>> \o decode(Tail(b))
    ELSE <<(b[1] - 192) * 64 + (b[2] - 128)>> \o decode(Tail(Tail(b)))

\* desc.split(b"\n")[0]
RECURSIVE FirstLine(_)
FirstLine(b) ==
    IF b = <<>> \/ b[1] = 10 THEN <<>> ELSE <<b[1]>> \o FirstLine(Tail(b))

HexDigit(d) == IF d < 10 THEN 48 + d ELSE 87 + d

RECURSIVE hexlify(_)
hexlify(b) ==
    IF b = <<>> THEN <<>>
    ELSE <<HexDigit(b[1] \div 16), HexDigit(b[1] % 16)>> \o hexlify(Tail(b))

\* a < b for byte strings (Python's lexicographic order)
RECURSIVE BytesLess(_, _)
BytesLess(a, b) ==
    IF b = <<>> THEN FALSE
    ELSE IF a = <<>> THEN TRUE
    ELSE IF a[1] # b[1] THEN a[1] < b[1]
    ELSE BytesLess(Tail(a), Tail(b))

(***************************************************************************)
(* Ordered dictionaries (key sequences) and lists                          *)
(***************************************************************************)
Keys(d) == {d[i] : i \in 1..Len(d)}

\* d[k] = 1
DictSet(d, k) == IF k \in Keys(d) THEN d ELSE Append(d, k)

\* del d[k], for k in d
DictDel(d, k) == SelectSeq(d, LAMBDA x : x # k)

Get(m, k) == IF k \in DOMAIN m THEN m[k] ELSE None

RECURSIVE InsertSorted(_, _)
InsertSorted(s, rec) ==
    IF s = <<>> THEN <<rec>>
    ELSE IF BytesLess(rec[1], s[1][1]) THEN <<rec>> \o s
    ELSE <<s[1]>> \o InsertSorted(Tail(s), rec)

\* list.sort() on records whose first fields (names) are pairwise distinct
RECURSIVE Sort(_)
Sort(s) == IF s = <<>> THEN <<>> ELSE InsertSorted(Sort(SubSeq(s, 1, Len(s) - 1)), s[Len(s)])

(***************************************************************************)
(* The repository backend                                                  *)
(***************************************************************************)
nullrev == 0 - 1

\* repo.changelog.node(r): nullid for the null revision
NodeOf(rev) == IF rev = nullrev THEN <<0>> ELSE <<161 + rev>>

nullid == NodeOf(nullrev)

\* repo.changelog.rev(n)
RevOf(rp, n) == CHOOSE rev \in nullrev..(rp.count - 1) : NodeOf(rev) = n

\* the parents of a revision precede it; a missing parent is the null revision
ValidParents(ps, rev) ==
    /\ ps[1] < rev /\ ps[2] < rev
    /\ ps[1] = nullrev => ps[2] = nullrev
    /\ ps[2] # nullrev => ps[1] # ps[2]

Graphs(n) ==
    {g \in [0..(n - 1) -> (nullrev..(n - 2)) \X (nullrev..(n - 2))] :
        \A rev \in 0..(n - 1) : ValidParents(g[rev], rev)}

\* chain 0<-1<-2<-3 and a second branch 0<-4<-5
ScenarioGraph ==
    [rev \in 0..5 |->
        IF rev = 0 THEN <<nullrev, nullrev>>
        ELSE IF rev = 4 THEN <<0, nullrev>>
        ELSE <<rev - 1, nullrev>>]

(***************************************************************************)
(* heads(): the scan                                                       *)
(***************************************************************************)
\* range(startrev + 1, max) is not yet exhausted at rr
InRange(rr, mx) == rr < mx

\* the scan with the stop test on the other dictionary: a stop revision
\* becomes reachable but is not marked a head
ScanParentStopReachable(reach, hd, stops, rr, p) ==
    LET reach1 == IF p \in reach THEN reach \cup {rr} ELSE reach
        hd1    == IF p \in reach /\ rr \notin stops THEN DictSet(hd, rr) ELSE hd
        hd2    == IF p \in Keys(hd1) /\ p \notin stops THEN DictDel(hd1, p) ELSE hd1
    IN  [reachable |-> reach1, heads |-> hd2]

\* the scan without the demotion of a parent
ScanParentNoDemote(reach, hd, stops, rr, p) ==
    LET reach1 == IF p \in reach /\ rr \notin stops THEN reach \cup {rr} ELSE reach
        hd1    == IF p \in reach THEN DictSet(hd, rr) ELSE hd
    IN  [reachable |-> reach1, heads |-> hd1]

\* the body of the inner loop, for revision rr and its parent p
ScanParent(reach, hd, stops, rr, p) ==
    LET reach1 == IF p \in reach /\ rr \notin stops THEN reach \cup {rr} ELSE reach
        hd1    == IF p \in reach THEN DictSet(hd, rr) ELSE hd
        hd2    == IF p \in Keys(hd1) /\ p \notin stops THEN DictDel(hd1, p) ELSE hd1
    IN  [reachable |-> reach1, heads |-> hd2]

\* the returned list with each revision formatted one too high
HeadListOffByOne(hd) == [i \in 1..Len(hd) |-> <<NodeOf(hd[i]), FormatD(hd[i] + 1)>>]

\* the list the function returns
HeadList(hd) == [i \in 1..Len(hd) |-> <<NodeOf(hd[i]), FormatD(hd[i])>>]

RECURSIVE ScanFrom(_, _, _, _, _, _, _)
ScanFrom(rp, reach, hd, stops, rr, i, mx) ==
    IF ~InRange(rr, mx) THEN hd
    ELSE LET st == ScanParent(reach, hd, stops, rr, rp.parents[rr][i])
         IN  IF i < 2 THEN ScanFrom(rp, st.reachable, st.heads, stops, rr, i + 1, mx)
             ELSE ScanFrom(rp, st.reachable, st.heads, stops, rr + 1, 1, mx)

\* heads(ui, repo, start, stop, max) as one call
heads(rp, start, stop, mx) ==
    LET srev == RevOf(rp, start)
    IN  HeadList(ScanFrom(rp, {srev}, <<srev>>, {RevOf(rp, n) : n \in stop}, srev + 1, 1, mx))

(***************************************************************************)
(* The head scan, step by step                                             *)
(***************************************************************************)
NoRecords == <<>>
NoMap     == [k \in {} |-> None]
NoRepo    == [count |-> 0, parents |-> <<>>, branch |-> <<>>, tags |-> <<>>]
NoFiles   == [marks |-> {}, mapping |-> {}, heads |-> <<>>, status |-> {}]
NoArgs    == [start |-> nullid, stop |-> {}, max |-> 0]

Nodes(rp) == {NodeOf(rev) : rev \in 0..(rp.count - 1)}

\* the variables the head scan does not use
IdleScript ==
    /\ flags = {} /\ revision = 0 /\ exit = ""
    /\ files = NoFiles
    /\ heads_cache = <<>> /\ marks_cache = NoMap
    /\ state_cache = NoMap /\ mapping_cache = NoMap
    /\ git_refs = NoMap /\ interned = FALSE
    /\ stale = <<>> /\ changed = <<>> /\ unchanged = <<>>
    /\ good = <<>> /\ bad = <<>> /\ failed_at = None /\ stdout = <<>> /\ stderr = <<>>

IdleScan ==
    /\ args = NoArgs /\ startrev = nullrev /\ stoprevs = {}
    /\ r = 0 /\ pidx = 1 /\ reachable = {} /\ headsd = <<>> /\ ret = <<>>

HeadsRepos ==
    {[count |-> NumRevs, parents |-> g, branch |-> <<>>, tags |-> <<>>] : g \in Graphs(NumRevs)}
    \cup {[count |-> 6, parents |-> ScenarioGraph, branch |-> <<>>, tags |-> <<>>]}

InitHeads ==
    /\ IdleScript
    /\ pc = "heads_enter"
    /\ repo \in HeadsRepos
    /\ \E start \in Nodes(repo) \cup {nullid}, stop \in SUBSET Nodes(repo), mx \in 0..repo.count :
           args = [start |-> start, stop |-> stop, max |-> mx]
    /\ startrev = nullrev /\ stoprevs = {}
    /\ r = 0 /\ pidx = 1 /\ reachable = {} /\ headsd = <<>> /\ ret = <<>>

\* lines 24-27: the revisions of the arguments, and the two seeded dictionaries
HeadsEnter ==
    /\ pc = "heads_enter"
    /\ stoprevs' = {RevOf(repo, n) : n \in args.stop}
    /\ startrev' = RevOf(repo, args.start)
    /\ reachable' = {RevOf(repo, args.start)}
    /\ headsd' = <<RevOf(repo, args.start)>>
    /\ r' = RevOf(repo, args.start) + 1
    /\ pidx' = 1
    /\ pc' = "heads_scan"
    /\ UNCHANGED <<optvars, exit, cachevars, envvars, args, ret, outvars>>

\* lines 30-37: one parent of one revision
HeadsScanParent ==
    /\ pc = "heads_scan"
    /\ InRange(r, args.max)
    /\ LET st == ScanParent(reachable, headsd, stoprevs, r, repo.parents[r][pidx])
       IN  /\ reachable' = st.reachable
           /\ headsd' = st.heads
    /\ IF pidx < 2 THEN /\ pidx' = pidx + 1
                        /\ r' = r
       ELSE /\ pidx' = 1
            /\ r' = r + 1
    /\ UNCHANGED <<optvars, pc, exit, cachevars, envvars, args, startrev, stoprevs, ret, outvars>>

\* line 39
HeadsReturn ==
    /\ pc = "heads_scan"
    /\ ~InRange(r, args.max)
    /\ ret' = HeadList(headsd)
    /\ pc' = "heads_done"
    /\ UNCHANGED <<optvars, exit, cachevars, envvars, args, startrev, stoprevs, r, pidx,
                   reachable, headsd, outvars>>

NextHeads == HeadsEnter \/ HeadsScanParent \/ HeadsReturn

SpecHeads == InitHeads /\ [][NextHeads]_vars

(***************************************************************************)
(* get_branches and get_tags                                               *)
(***************************************************************************)
\* get_changeset(ui, repo, rev): the author, description and branch of a changeset
get_changeset(rp, rev) ==
    [user |-> <<117, 48 + rev>>, desc |-> <<99, 48 + rev, 10, 120>>, branch |-> rp.branch[rev]]

\* a is b: None is one object; two equal byte strings are one object only
\* when the runtime shares them
Is(a, b, shared) == a = b /\ (a = None \/ shared)

\* line 52
SameObject(git_sha1, cache_sha1, shared) == git_sha1 # None /\ Is(git_sha1, cache_sha1, shared)

\* the loop body without line 49
StaleKept(st, branch) == st

\* line 49: del stale[branch]
StaleWithout(st, branch) == DictDel(st, branch)

\* lines 47-55, from the i-th head on
RECURSIVE ClassifyHeads(_, _, _, _, _, _)
ClassifyHeads(cx, h, i, st, ch, un) ==
    IF i > Len(h) THEN [status |-> "ok", stale |-> st, changed |-> ch, unchanged |-> un, at |-> None]
    ELSE LET rev        == h[i][2]
             cs         == get_changeset(cx.repo, int(rev))
             git_sha1   == Get(cx.refs, cs.branch)
             cache_sha1 == Get(cx.marks, FormatD(int(rev) + 1))
             rec        == <<cs.branch, cache_sha1, rev, FirstLine(cs.desc), cs.user>>
         IN  IF cs.branch \notin Keys(st)
             THEN [status |-> "KeyError", stale |-> st, changed |-> ch, unchanged |-> un, at |-> rev]
             ELSE IF SameObject(git_sha1, cache_sha1, cx.shared)
             THEN ClassifyHeads(cx, h, i + 1, StaleWithout(st, cs.branch), ch, Append(un, rec))
             ELSE ClassifyHeads(cx, h, i + 1, StaleWithout(st, cs.branch), Append(ch, rec), un)

\* get_branches calling heads() without its max argument
get_branches_unbounded(rp, hc, mc, refs, shared, mx) ==
    LET res == ClassifyHeads([repo |-> rp, marks |-> mc, refs |-> refs, shared |-> shared],
                             heads(rp, nullid, {}, rp.count), 1,
                             [i \in 1..Len(hc) |-> hc[i][1]], <<>>, <<>>)
    IN  [res EXCEPT !.changed = Sort(res.changed), !.unchanged = Sort(res.unchanged)]

\* get_branches(ui, repo, heads_cache, marks_cache, mapping_cache, max)
get_branches(rp, hc, mc, refs, shared, mx) ==
    LET res == ClassifyHeads([repo |-> rp, marks |-> mc, refs |-> refs, shared |-> shared],
                             heads(rp, nullid, {}, mx), 1,
                             [i \in 1..Len(hc) |-> hc[i][1]], <<>>, <<>>)
    IN  [res EXCEPT !.changed = Sort(res.changed), !.unchanged = Sort(res.unchanged)]

\* line 70 with >= in the place of >
TagIsBadFromCeiling(rev, mx) == rev >= mx

\* line 70
TagIsBad(rev, mx) == rev > mx

\* lines 64-73, from the i-th tag on
RECURSIVE ClassifyTags(_, _, _, _, _)
ClassifyTags(cx, list, i, gd, bd) ==
    IF i > Len(list) THEN [status |-> "ok", good |-> gd, bad |-> bd, at |-> None]
    ELSE LET tag == list[i][1]
             key == hexlify(list[i][2])
         IN  IF tag = B_tip THEN ClassifyTags(cx, list, i + 1, gd, bd)
             ELSE IF key \notin DOMAIN cx.mapping
             THEN [status |-> "KeyError", good |-> gd, bad |-> bd, at |-> tag]
             ELSE LET rev        == int(cx.mapping[key])
                      cache_sha1 == Get(cx.marks, FormatD(rev + 1))
                      cs         == get_changeset(cx.repo, rev)
                      rec        == <<tag, cs.branch, cache_sha1, IntObj(rev),
                                      FirstLine(cs.desc), cs.user>>
                  IN  IF TagIsBad(rev, cx.max)
                      THEN ClassifyTags(cx, list, i + 1, gd, Append(bd, rec))
                      ELSE ClassifyTags(cx, list, i + 1, Append(gd, rec), bd)

\* get_tags(ui, repo, marks_cache, mapping_cache, max)
get_tags(rp, mc, mp, mx) ==
    LET res == ClassifyTags([repo |-> rp, marks |-> mc, mapping |-> mp, max |-> mx],
                            rp.tags, 1, <<>>, <<>>)
    IN  [res EXCEPT !.good = Sort(res.good), !.bad = Sort(res.bad)]

\* mangle_mark(mark)
mangle_mark(mark) == FormatD(int(mark) - 1)

mangle_key(key) == key

\* the key function load_cache is called with, applied
KeyOf(get_key, k) == IF get_key = "mangle_mark" THEN mangle_mark(k) ELSE mangle_key(k)

\* load_cache(filename, get_key): the entries of the file, keyed by get_key
load_cache(file, get_key) ==
    [k \in {KeyOf(get_key, e[1]) : e \in file} |->
        (CHOOSE e \in file : KeyOf(get_key, e[1]) = k)[2]]

(***************************************************************************)
(* Inputs: option sets, cache files, repositories, git references          *)
(***************************************************************************)
\* the six options, in the order lines 111-122 test them
OptOrder == <<"marksfile", "mappingfile", "headsfile", "statusfile", "repourl", "revision">>

OptText ==
    [marksfile |-> "--marks option", mappingfile |-> "--mapping option",
     headsfile |-> "--heads option", statusfile |-> "--status option",
     repourl |-> "--repo option", revision |-> "-R/--revision"]

OptNames == {OptOrder[i] : i \in 1..Len(OptOrder)}

Branches == {B_default, B_stable}

\* the identifier git-fast-import recorded for a mark
ShaOf(mark) == <<96 + mark>>

\* a marks file of the first k marks; a mapping file of the first k changesets
MarksFile(k) == {<<FormatD(m), ShaOf(m)>> : m \in 1..k}

MappingFile(k) == {<<hexlify(NodeOf(rev)), FormatD(rev)>> : rev \in 0..(k - 1)}

StatusFiles(n) == {{}} \cup {{<<B_tip, FormatD(t)>>} : t \in 0..n}

\* a heads file: lines of distinct branch names, in some order
HeadsFiles ==
    {<<>>} \cup {<< <<b, ShaOf(1)>> >> : b \in Branches}
    \cup {<< <<b, ShaOf(1)>>, <<c, ShaOf(2)>> >> : <<b, c>> \in {bc \in Branches \X Branches : bc[1] # bc[2]}}

\* repo.tagslist(): the tags ordered by revision, then by name; tip is the
\* last changeset
TagEntries(n, v1, v2) ==
    {<<n - 1, B_tip>>}
    \cup (IF v1 = nullrev THEN {} ELSE {<<v1, B_v1>>})
    \cup (IF v2 = nullrev THEN {} ELSE {<<v2, B_v2>>})

TagBefore(a, b) == a[1] < b[1] \/ (a[1] = b[1] /\ BytesLess(a[2], b[2]))

TagsList(entries) ==
    LET ordered == CHOOSE q \in [1..Cardinality(entries) -> entries] :
                       \A i, j \in 1..Cardinality(entries) : i < j => TagBefore(q[i], q[j])
    IN  [i \in 1..Cardinality(entries) |-> <<ordered[i][2], NodeOf(ordered[i][1])>>]

TagsLists(n) ==
    {TagsList(TagEntries(n, v1, v2)) : v1 \in nullrev..(n - 1), v2 \in nullrev..(n - 1)}

Repos(n, graphs, branchmaps, taglists) ==
    {[count |-> n, parents |-> g, branch |-> b, tags |-> t] :
        g \in graphs, b \in branchmaps, t \in taglists}

BranchMaps(n) == [0..(n - 1) -> Branches]

\* what git rev-parse answers per branch: nothing, or one of two identifiers
GitRefs == [Branches -> {None, ShaOf(2), ShaOf(3)}]

\* the repositories and git references a whole run is explored on: every
\* graph, one branch or two alternating ones, one tag anywhere and a second
\* on the first changeset, every branch at the same identifier
RunBranchMaps(n) ==
    {[rev \in 0..(n - 1) |-> B_default],
     [rev \in 0..(n - 1) |-> IF rev % 2 = 0 THEN B_default ELSE B_stable]}

RunTagsLists(n) ==
    {TagsList(TagEntries(n, v1, v2)) : v1 \in nullrev..(n - 1), v2 \in {nullrev, 0}}

RunGitRefs == {[b \in Branches |-> v] : v \in {None, ShaOf(2), ShaOf(3)}}

(***************************************************************************)
(* The script                                                              *)
(***************************************************************************)
Missing == {i \in 1..Len(OptOrder) : OptOrder[i] \notin flags}

FirstMissing == CHOOSE i \in Missing : \A j \in Missing : i <= j

Init ==
    /\ flags \in SUBSET OptNames
    /\ revision \in (IF "revision" \in flags THEN 0..(RepoRevs - 1) ELSE {0})
    /\ pc = "options" /\ exit = ""
    /\ files = NoFiles
    /\ heads_cache = <<>> /\ marks_cache = NoMap
    /\ state_cache = NoMap /\ mapping_cache = NoMap
    /\ repo = NoRepo /\ git_refs = NoMap /\ interned = FALSE
    /\ IdleScan
    /\ stale = <<>> /\ changed = <<>> /\ unchanged = <<>>
    /\ good = <<>> /\ bad = <<>> /\ failed_at = None /\ stdout = <<>> /\ stderr = <<>>

\* lines 85-88 and 111-122: the first missing option ends the run with code 2
CheckOptions ==
    /\ pc = "options"
    /\ IF Missing # {}
       THEN /\ stderr' = Append(stderr, <<"Error: No option %s given", OptText[OptOrder[FirstMissing]]>>)
            /\ exit' = "exit(2)"
            /\ pc' = "exited"
       ELSE /\ pc' = "load"
            /\ UNCHANGED <<stderr, exit>>
    /\ UNCHANGED <<optvars, cachevars, envvars, scanvars,
                   stale, changed, unchanged, good, bad, failed_at, stdout>>

\* lines 124-127: the four files as they are on disk when the script reads them
LoadCaches ==
    /\ pc = "load"
    /\ \E k \in 0..RepoRevs, hf \in HeadsFiles, sf \in StatusFiles(RepoRevs) :
           /\ files' = [marks |-> MarksFile(k), mapping |-> MappingFile(k),
                        heads |-> hf, status |-> sf]
           /\ heads_cache' = [i \in 1..Len(hf) |-> <<mangle_key(hf[i][1]), hf[i][2]>>]
           /\ marks_cache' = load_cache(MarksFile(k), "mangle_mark")
           /\ state_cache' = load_cache(sf, "mangle_key")
           /\ mapping_cache' = load_cache(MappingFile(k), "mangle_key")
    /\ pc' = "tip"
    /\ UNCHANGED <<optvars, exit, repo, git_refs, interned, scanvars, outvars>>

\* line 129: int(state_cache.get(b"tip", options.revision))
RecordedTip == IF B_tip \in DOMAIN state_cache THEN int(state_cache[B_tip]) ELSE revision

\* line 130 with >= in the place of >
BeyondTipInclusive == revision + 1 >= RecordedTip

\* line 130
BeyondTip == revision + 1 > RecordedTip

\* lines 129-135
CheckTip ==
    /\ pc = "tip"
    /\ IF BeyondTip
       THEN /\ stderr' = Append(stderr, <<"Revision is beyond last revision imported: %d>%d",
                                         revision, RecordedTip>>)
            /\ exit' = "exit(1)"
            /\ pc' = "exited"
       ELSE /\ pc' = "setup"
            /\ UNCHANGED <<stderr, exit>>
    /\ UNCHANGED <<optvars, cachevars, envvars, scanvars,
                   stale, changed, unchanged, good, bad, failed_at, stdout>>

\* line 137: the repository at the url, and the git repository get_git_sha1 reads
setup_repo ==
    /\ pc = "setup"
    /\ repo' \in Repos(RepoRevs, Graphs(RepoRevs), RunBranchMaps(RepoRevs), RunTagsLists(RepoRevs))
    /\ git_refs' \in RunGitRefs
    /\ interned' \in BOOLEAN
    /\ pc' = "get_branches"
    /\ UNCHANGED <<optvars, exit, files, cachevars, scanvars, outvars>>

\* lines 139-141
GetBranches ==
    /\ pc = "get_branches"
    /\ LET res == get_branches(repo, heads_cache, marks_cache, git_refs, interned, revision + 1)
       IN  IF res.status = "ok"
           THEN /\ stale' = res.stale
                /\ changed' = res.changed
                /\ unchanged' = res.unchanged
                /\ pc' = "get_tags"
                /\ UNCHANGED <<exit, failed_at>>
           ELSE /\ exit' = res.status
                /\ failed_at' = res.at
                /\ pc' = "exited"
                /\ UNCHANGED <<stale, changed, unchanged>>
    /\ UNCHANGED <<optvars, cachevars, envvars, scanvars, good, bad, stdout, stderr>>

\* lines 142-144
GetTags ==
    /\ pc = "get_tags"
    /\ LET res == get_tags(repo, marks_cache, mapping_cache, revision + 1)
       IN  IF res.status = "ok"
           THEN /\ good' = res.good
                /\ bad' = res.bad
                /\ pc' = "stale_branches"
                /\ UNCHANGED <<exit, failed_at>>
           ELSE /\ exit' = res.status
                /\ failed_at' = res.at
                /\ pc' = "exited"
                /\ UNCHANGED <<good, bad>>
    /\ UNCHANGED <<optvars, cachevars, envvars, scanvars, stale, changed, unchanged,
                   stdout, stderr>>

\* one report line: the format and its decoded arguments
Line(fmt, rec, idxs) == [fmt |-> fmt, args |-> [j \in 1..Len(idxs) |-> decode(rec[idxs[j]])]]

Header(text) == [fmt |-> text, args |-> <<>>]

\* the lines a loop writes for the entries from the i-th on; it raises at the
\* first entry that holds, where .decode is called, something that is no
\* byte string
RECURSIVE EmitLines(_, _, _, _, _)
EmitLines(out, list, i, fmt, idxs) ==
    IF i > Len(list) THEN [out |-> out, raised |-> FALSE, at |-> None]
    ELSE IF \A j \in 1..Len(idxs) : IsBytes(list[i][idxs[j]])
    THEN EmitLines(Append(out, Line(fmt, list[i], idxs)), list, i + 1, fmt, idxs)
    ELSE [out |-> out, raised |-> TRUE, at |-> list[i][1]]

\* a header and the loop under it
PrintSection(at, next, header, list, fmt, idxs) ==
    /\ pc = at
    /\ LET res == EmitLines(Append(stdout, Header(header)), list, 1, fmt, idxs)
       IN  /\ stdout' = res.out
           /\ IF res.raised
              THEN /\ exit' = "AttributeError"
                   /\ failed_at' = res.at
                   /\ pc' = "exited"
              ELSE /\ pc' = next
                   /\ UNCHANGED <<exit, failed_at>>
    /\ UNCHANGED <<optvars, cachevars, envvars, scanvars, stale, changed, unchanged,
                   good, bad, stderr>>

\* lines 146-148
PrintStaleBranches ==
    PrintSection("stale_branches", "stale_tags", "Possibly stale branches:",
                 [i \in 1..Len(stale) |-> <<stale[i]>>], "\t%s\n", <<1>>)

\* lines 150-155
PrintStaleTags ==
    PrintSection("stale_tags", "unchanged_branches", "Possibly stale tags:",
                 bad, "\t%s on %s (r%s)\n", <<1, 2, 4>>)

\* lines 157-161
PrintUnchangedBranches ==
    PrintSection("unchanged_branches", "unchanged_tags", "Unchanged branches:",
                 unchanged, "\t%s (r%s)\n", <<1, 3>>)

\* lines 163-168
PrintUnchangedTags ==
    PrintSection("unchanged_tags", "reset_branches", "Unchanged tags:",
                 good, "\t%s on %s (r%s)\n", <<1, 2, 4>>)

\* lines 170-181
PrintResetBranches ==
    PrintSection("reset_branches", "reset_tip", "Reset branches in '%s' to:",
                 changed, "\t:%s %s\n\t\t(r%s: %s: %s)\n", <<1, 2, 3, 5, 4>>)

\* line 183, after which the script ends
PrintResetTip ==
    /\ pc = "reset_tip"
    /\ stdout' = Append(stdout, [fmt |-> "Reset ':tip' in '%s' to '%d'", args |-> <<FormatD(revision)>>])
    /\ exit' = "end"
    /\ pc' = "exited"
    /\ UNCHANGED <<optvars, cachevars, envvars, scanvars, stale, changed, unchanged,
                   good, bad, failed_at, stderr>>

Next ==
    \/ CheckOptions
    \/ LoadCaches
    \/ CheckTip
    \/ setup_repo
    \/ GetBranches
    \/ GetTags
    \/ PrintStaleBranches
    \/ PrintStaleTags
    \/ PrintUnchangedBranches
    \/ PrintUnchangedTags
    \/ PrintResetBranches
    \/ PrintResetTip

Spec == Init /\ [][Next]_vars

(***************************************************************************)
(* get_branches and get_tags on their own, from every input                *)
(***************************************************************************)
ChainGraph(n) == [rev \in 0..(n - 1) |-> <<rev - 1, nullrev>>]

NoTags(n) == {TagsList(TagEntries(n, nullrev, nullrev))}

\* a mapping cache that knows any of the changesets, under any revision
MappingCaches(n) ==
    UNION {[D -> {FormatD(rev) : rev \in 0..(n - 1)}] :
               D \in SUBSET {hexlify(NodeOf(rev)) : rev \in 0..(n - 1)}}

Called ==
    /\ flags = OptNames /\ exit = ""
    /\ IdleScan
    /\ good = <<>> /\ bad = <<>> /\ failed_at = None /\ stdout = <<>> /\ stderr = <<>>
    /\ stale = <<>> /\ changed = <<>> /\ unchanged = <<>>
    /\ state_cache = load_cache({<<B_tip, FormatD(RepoRevs)>>}, "mangle_key")
    /\ interned \in BOOLEAN

InitBranches ==
    /\ Called
    /\ pc = "get_branches"
    /\ revision \in 0..(RepoRevs - 1)
    /\ \E k \in 0..(RepoRevs + 1), hf \in HeadsFiles :
           /\ files = [marks |-> MarksFile(k), mapping |-> MappingFile(RepoRevs),
                       heads |-> hf, status |-> {<<B_tip, FormatD(RepoRevs)>>}]
           /\ heads_cache = [i \in 1..Len(hf) |-> <<mangle_key(hf[i][1]), hf[i][2]>>]
           /\ marks_cache = load_cache(MarksFile(k), "mangle_mark")
    /\ mapping_cache = load_cache(MappingFile(RepoRevs), "mangle_key")
    /\ repo \in Repos(RepoRevs, Graphs(RepoRevs), BranchMaps(RepoRevs), NoTags(RepoRevs))
    /\ git_refs \in GitRefs

SpecBranches == InitBranches /\ [][GetBranches]_vars

InitTags ==
    /\ Called
    /\ pc = "get_tags"
    /\ revision \in nullrev..(RepoRevs - 1)
    /\ \E k \in {0, RepoRevs + 1} :
           /\ files = [marks |-> MarksFile(k), mapping |-> {},
                       heads |-> <<>>, status |-> {<<B_tip, FormatD(RepoRevs)>>}]
           /\ marks_cache = load_cache(MarksFile(k), "mangle_mark")
    /\ heads_cache = <<>>
    /\ mapping_cache \in MappingCaches(RepoRevs)
    /\ repo \in Repos(RepoRevs, {ChainGraph(RepoRevs)}, BranchMaps(RepoRevs), TagsLists(RepoRevs))
    /\ git_refs = [b \in Branches |-> None]

SpecTags == InitTags /\ [][GetTags]_vars

(***************************************************************************)
(* Claims about heads()                                                    *)
(***************************************************************************)
HeadsDone == pc = "heads_done"

RetRevs == {int(ret[i][2]) : i \in 1..Len(ret)}

\* the revisions below mx that have no child below mx
ChildlessBelow(rp, mx) ==
    {x \in 0..(mx - 1) :
        \A c \in 0..(mx - 1) : rp.parents[c][1] # x /\ rp.parents[c][2] # x}

DefaultCall == args.start = nullid /\ args.stop = {} /\ 0 < args.max

\* C1: called with the default start and an empty stop set and a ceiling
\* 0 < max <= count, heads() returns exactly the revisions below max that have
\* no child below max, each once, paired with its node and its decimal text.
C1_HeadsAreChildless ==
    (HeadsDone /\ DefaultCall) =>
        /\ RetRevs = ChildlessBelow(repo, args.max)
        /\ Len(ret) = Cardinality(ChildlessBelow(repo, args.max))
        /\ \A i \in 1..Len(ret) :
               /\ ret[i][1] = NodeOf(int(ret[i][2]))
               /\ \A j \in 1..Len(ret[i][2]) : ret[i][2][j] \in 48..57

\* the scenario: chain 0<-1<-2<-3, branch 0<-4<-5, max = 4, result {3}
C1_Witness ==
    /\ HeadsDone /\ DefaultCall
    /\ repo.parents = ScenarioGraph /\ args.max = 4
    /\ ret = << <<NodeOf(3), <<51>> >> >>

\* C2 as stated: every head returned is below max, whatever the start.
C2_Original == HeadsDone => \A x \in RetRevs : x < args.max

\* C2 amended: every head returned is below max when the start revision is;
\* when max <= start revision the result is the start alone.
C2_HeadsBelowMax ==
    HeadsDone =>
        /\ startrev < args.max => \A x \in RetRevs : x < args.max
        /\ args.max <= startrev => ret = << <<args.start, FormatD(startrev)>> >>

C2_Witness ==
    /\ HeadsDone /\ args.start # nullid /\ args.stop # {}
    /\ startrev + 1 < args.max /\ Len(ret) = 2

CurParent == repo.parents[r][pidx]

Scanning == pc = "heads_scan" /\ InRange(r, args.max)

Demotes ==
    (Scanning /\ CurParent \in Keys(headsd) /\ CurParent \notin stoprevs)
        => CurParent \notin Keys(headsd')

\* C9 as stated: a scanned revision with a reachable parent becomes reachable,
\* and is marked a head unless it is a stop revision.
C9_Original ==
    [][/\ (Scanning /\ CurParent \in reachable) =>
              /\ r \in reachable'
              /\ r \in Keys(headsd') <=> r \notin stoprevs
       /\ Demotes]_vars

\* C9 amended: a scanned revision with a reachable parent is marked a head,
\* and becomes reachable unless it is a stop revision (a stop revision with a
\* reachable parent is a head but is not reachable); a parent that is a head
\* and not a stop revision is removed from the heads.
C9_ScanStep ==
    [][/\ (Scanning /\ CurParent \in reachable) =>
              /\ r \in Keys(headsd')
              /\ r \in reachable' <=> r \notin stoprevs
       /\ Demotes]_vars

\* a stop revision with a reachable parent has been scanned, and a parent demoted
C9_Witness ==
    /\ pc = "heads_scan"
    /\ \E x \in stoprevs : x > startrev /\ x \in Keys(headsd) /\ x \notin reachable
    /\ \E x \in reachable : x \notin Keys(headsd) /\ x \notin stoprevs

(***************************************************************************)
(* Claims about get_branches                                               *)
(***************************************************************************)
Names(list) == [i \in 1..Len(list) |-> list[i][1]]

Distinct(q) == \A i, j \in 1..Len(q) : q[i] = q[j] => i = j

CacheBranches == {heads_cache[i][1] : i \in 1..Len(heads_cache)}

\* the heads below revision + 1, in increasing order, from the graph alone
HeadRevs == ChildlessBelow(repo, revision + 1)

HeadSeq ==
    CHOOSE q \in [1..Cardinality(HeadRevs) -> HeadRevs] :
        \A i, j \in 1..Cardinality(HeadRevs) : i < j => q[i] < q[j]

HeadBranches == {repo.branch[x] : x \in HeadRevs}

\* get_branches has returned its three collections
BranchesReturned == pc = "get_tags"

\* C3: after get_branches returns, every branch of heads_cache is in exactly
\* one of stale, changed, unchanged, none is in two of them or twice in one;
\* stale holds the cached branches without a head below max, the other two
\* the branches of the heads.
C3_BranchPartition ==
    BranchesReturned =>
        /\ Distinct(stale \o Names(changed) \o Names(unchanged))
        /\ CacheBranches = Keys(stale) \cup Keys(Names(changed)) \cup Keys(Names(unchanged))
        /\ Keys(stale) = CacheBranches \ HeadBranches
        /\ Keys(Names(changed)) \cup Keys(Names(unchanged)) = HeadBranches

C3_Witness ==
    /\ pc = "get_tags" /\ revision + 1 < repo.count
    /\ Len(stale) = 1 /\ Len(unchanged) = 1 /\ changed = <<>>

\* C4: a head is in unchanged exactly when the identifier git records for its
\* branch is present and equal in value to marks_cache[r + 1], and in changed
\* in every other case.
C4_UnchangedByValue ==
    BranchesReturned =>
        \A x \in HeadRevs :
            LET git_sha1   == Get(git_refs, repo.branch[x])
                cache_sha1 == Get(marks_cache, FormatD(x + 1))
                matches    == git_sha1 # None /\ cache_sha1 # None /\ git_sha1 = cache_sha1
            IN  /\ matches <=> repo.branch[x] \in Keys(Names(unchanged))
                /\ ~matches <=> repo.branch[x] \in Keys(Names(changed))

\* the i-th head is one whose branch line 49 cannot delete
Offending(i) ==
    \/ repo.branch[HeadSeq[i]] \notin CacheBranches
    \/ \E j \in 1..(i - 1) : repo.branch[HeadSeq[j]] = repo.branch[HeadSeq[i]]

\* C10: get_branches returns only if the branches of the heads below max are
\* pairwise distinct keys of heads_cache; otherwise it raises the lookup error
\* at the first head whose branch is no key or is a repeated one, and returns
\* nothing.
C10_LookupError ==
    pc # "get_branches" =>
        LET off == {i \in 1..Cardinality(HeadRevs) : Offending(i)}
        IN  /\ BranchesReturned <=> off = {}
            /\ off # {} =>
                   /\ exit = "KeyError"
                   /\ failed_at = FormatD(HeadSeq[CHOOSE i \in off : \A j \in off : i <= j])
                   /\ stale = <<>> /\ changed = <<>> /\ unchanged = <<>>

\* two heads on one branch: the second deletion fails
C10_Witness ==
    /\ pc = "exited" /\ exit = "KeyError" /\ failed_at = FormatD(1)
    /\ repo.branch[0] = repo.branch[1] /\ repo.branch[0] \in CacheBranches

(***************************************************************************)
(* Claims about get_tags                                                   *)
(***************************************************************************)
UserTags == {i \in 1..Len(repo.tags) : repo.tags[i][1] # B_tip}

\* get_tags has returned its two lists
TagsReturned ==
    \/ pc \in {"stale_branches", "stale_tags", "unchanged_branches",
               "unchanged_tags", "reset_branches", "reset_tip"}
    \/ pc = "exited" /\ exit \in {"end", "AttributeError"}

Ascending(q) == \A i, j \in 1..Len(q) : i < j => BytesLess(q[i], q[j])

\* C6: when the digest of every tag is a key of mapping_cache, each tag but
\* "tip" is in exactly one of good and bad, in bad when mapping_cache[digest]
\* > max and in good otherwise; "tip" is in neither; both lists ascend by name.
C6_TagsByCeiling ==
    (pc # "get_tags"
     /\ \A i \in 1..Len(repo.tags) : hexlify(repo.tags[i][2]) \in DOMAIN mapping_cache) =>
        /\ TagsReturned
        /\ \A i \in UserTags :
               LET mapped == int(mapping_cache[hexlify(repo.tags[i][2])])
               IN  /\ repo.tags[i][1] \in Keys(Names(bad)) <=> mapped > revision + 1
                   /\ repo.tags[i][1] \in Keys(Names(good)) <=> ~(mapped > revision + 1)
        /\ Len(good) + Len(bad) = Cardinality(UserTags)
        /\ B_tip \notin Keys(Names(good)) \cup Keys(Names(bad))
        /\ Ascending(Names(good)) /\ Ascending(Names(bad))

\* two tags above the ceiling, listed in the reverse order of their names
C6_Witness ==
    /\ pc = "stale_branches"
    /\ \A i \in 1..Len(repo.tags) : hexlify(repo.tags[i][2]) \in DOMAIN mapping_cache
    /\ Len(repo.tags) = 3 /\ repo.tags[1][1] = B_v2
    /\ Names(bad) = <<B_v1, B_v2>>

\* C5: in a full run a tag is reported stale exactly when its changeset lies
\* past the reset revision, and unchanged when it lies at or before it.
C5_TagsPastReset ==
    TagsReturned =>
        \A i \in UserTags :
            LET owning == RevOf(repo, repo.tags[i][2])
            IN  /\ repo.tags[i][1] \in Keys(Names(bad)) <=> owning > revision
                /\ owning <= revision => repo.tags[i][1] \in Keys(Names(good))

(***************************************************************************)
(* Claims about the run                                                    *)
(***************************************************************************)
TipRecorded == B_tip \in DOMAIN state_cache

PastTipCheck == pc \notin {"options", "load", "tip"}

SectionLines(list, fmt, idxs) == [i \in 1..Len(list) |-> Line(fmt, list[i], idxs)]

FullReport ==
    <<Header("Possibly stale branches:")>>
    \o SectionLines([i \in 1..Len(stale) |-> <<stale[i]>>], "\t%s\n", <<1>>)
    \o <<Header("Possibly stale tags:")>>
    \o [i \in 1..Len(bad) |->
           [fmt |-> "\t%s on %s (r%s)\n",
            args |-> <<decode(bad[i][1]), decode(bad[i][2]), FormatD(bad[i][4][2])>>]]
    \o <<Header("Unchanged branches:")>>
    \o SectionLines(unchanged, "\t%s (r%s)\n", <<1, 3>>)
    \o <<Header("Unchanged tags:")>>
    \o [i \in 1..Len(good) |->
           [fmt |-> "\t%s on %s (r%s)\n",
            args |-> <<decode(good[i][1]), decode(good[i][2]), FormatD(good[i][4][2])>>]]
    \o <<Header("Reset branches in '%s' to:")>>
    \o [i \in 1..Len(changed) |->
           [fmt |-> "\t:%s %s\n\t\t(r%s: %s: %s)\n",
            args |-> <<decode(changed[i][1]),
                       IF changed[i][2] = None THEN <<78, 111, 110, 101>> ELSE decode(changed[i][2]),
                       decode(changed[i][3]), decode(changed[i][5]), decode(changed[i][4])>>]]
    \o <<[fmt |-> "Reset ':tip' in '%s' to '%d'", args |-> <<FormatD(revision)>>]>>

\* C8: a run whose options and tip pass and whose two classifiers return ends
\* normally, having printed the six headers in order, each of the first five
\* followed by one line per entry of its collection.
C8_FullReport ==
    (pc = "exited" /\ TagsReturned) => (exit = "end" /\ stdout = FullReport)

====
